---- MODULE Spec2Model ----
(***************************************************************************)
(* Two-stage open-set / semi-supervised training: the Confidence Gate,     *)
(* the Centroid Calibrator, the EMA teacher, the Imbalance Reweighter and  *)
(* the epoch loops of the stage orchestrators.                             *)
(*                                                                         *)
(* Numbers.  Real values are exact rationals <<n, d>> in lowest terms      *)
(* with d > 0.  A logit is an integer k that stands for the real number    *)
(* k * ln 2, so that exp(logit) = 2^k and every softmax probability is an  *)
(* exact rational.  A natural logarithm ln(r) of a rational r is kept as   *)
(* its argument r.                                                         *)
(***************************************************************************)
EXTENDS Integers, Naturals, Sequences, FiniteSets, TLC

(* ---------------------------- bounds ---------------------------------- *)
MaxData == 2
MaxDeploy == 1
MaxWeight == 2
MaxSteps == 2
MaxIter == 3
MaxCount == 8
DoubleBits == 6
SingleBits == 4
MaxVec == 3
MaxEpochs == 3
MaxF1 == 3
MaxTrain == 3
MaxCalls == 2
MaxAnn == 3
MaxAcc == 2
MaxLogit == 1
MaxFeat == 2
ThetaDen == 3

(* ------------------------ configuration ------------------------------- *)
\* src.data.class_indices: dataset category id -> dense 0-based class id.
\* One entry per value of args.class_indices.
class_indices ==
    [pair |-> [c \in {1, 6} |-> IF c = 1 THEN 0 ELSE 1],
     triple |-> [c \in {1, 6, 9} |-> IF c = 1 THEN 0 ELSE IF c = 6 THEN 1 ELSE 2]]
NumClasses == Cardinality(DOMAIN class_indices["pair"])
Classes == 0 .. (NumClasses - 1)
\* self.net.feature_dim
FeatDim == 2
Dims == 0 .. (FeatDim - 1)
\* args.reachability_scale
ReachabilityScales == {1, 2}
\* args.batch_size
batch_size == 2

(* -------------------------- rationals --------------------------------- *)
Abs(x) == IF x < 0 THEN -x ELSE x

RECURSIVE GCD(_, _)
GCD(a, b) == IF b = 0 THEN a ELSE GCD(b, a % b)

Rat(n, d) ==
    LET g == GCD(Abs(n), Abs(d))
        s == IF d < 0 THEN -1 ELSE 1
    IN  <<s * (n \div g), s * (d \div g)>>

RatMul(a, b) ==
    LET g1 == GCD(Abs(a[1]), b[2])
        g2 == GCD(Abs(b[1]), a[2])
    IN  Rat((a[1] \div g1) * (b[1] \div g2), (a[2] \div g2) * (b[2] \div g1))

RatDiv(a, b) == RatMul(a, Rat(b[2], b[1]))

RatAdd(a, b) ==
    LET g == GCD(a[2], b[2])
        l == (a[2] \div g) * b[2]
    IN  Rat(a[1] * (l \div a[2]) + b[1] * (l \div b[2]), l)

RatSub(a, b) == RatAdd(a, <<-b[1], b[2]>>)

RatLt(a, b) ==
    LET g == GCD(a[2], b[2])
    IN  a[1] * (b[2] \div g) < b[1] * (a[2] \div g)

RatGe(a, b) == ~RatLt(a, b)

Zero == <<0, 1>>
One == <<1, 1>>

RECURSIVE Pow(_, _)
Pow(b, n) == IF n = 0 THEN 1 ELSE b * Pow(b, n - 1)

\* Sum / product of f[lo], ..., f[hi] (empty when lo > hi).
RECURSIVE IntSum(_, _, _)
IntSum(f, lo, hi) == IF lo > hi THEN 0 ELSE f[lo] + IntSum(f, lo + 1, hi)

RECURSIVE RatSum(_, _, _)
RatSum(f, lo, hi) == IF lo > hi THEN Zero ELSE RatAdd(f[lo], RatSum(f, lo + 1, hi))

RECURSIVE RatProd(_, _, _)
RatProd(f, lo, hi) == IF lo > hi THEN One ELSE RatMul(f[lo], RatProd(f, lo + 1, hi))

Min(S) == CHOOSE x \in S : \A y \in S : x <= y
Max(S) == CHOOSE x \in S : \A y \in S : x >= y

\* Integer square root, and the perfect squares.
ISqrt(n) == CHOOSE r \in 0 .. n : r * r <= n /\ (r + 1) * (r + 1) > n
IsSquare(n) == ISqrt(n) * ISqrt(n) = n

(* --------------------- softmax, max, the gate -------------------------- *)
NaN == <<0, 0>>
IsNaN(p) == p[2] = 0

\* F.softmax(logits, dim=1) of one row of finite logits.
Softmax(row) ==
    LET m == Min({row[c] : c \in Classes})
        e == [c \in Classes |-> Pow(2, row[c] - m)]
        s == IntSum(e, 0, NumClasses - 1)
    IN  [c \in Classes |-> Rat(e[c], s)]

\* The maximal value of one row of probabilities.
RowMax(p) == CHOOSE v \in {p[c] : c \in Classes} : \A c \in Classes : ~RatLt(v, p[c])

\* torch.max(dim): the index of the first maximal value.
RowArgMax(p) == Min({c \in Classes : p[c] = RowMax(p)})

(* --------------------------- state ------------------------------------ *)
VARIABLES
    \* Confidence Gate (evaluate_epoch / deploy_epoch / evaluate_forward)
    alg,                \* the algorithm class whose evaluation runs
    gate_pc,            \* "idle", "ready", "done", "saved"
    raw_logits,         \* self.net.classifier(feats), one row per example
    feats,              \* self.net.feature(data), one vector per example
    self_centroids,     \* self.centroids
    reachability_scale, \* args.reachability_scale
    theta,              \* args.theta
    ood,                \* the ood argument of evaluate_forward
    logits,             \* the rows handed to F.softmax
    max_probs,          \* concatenated max_probs
    total_preds,        \* np.concatenate(total_preds)
    init_pseudo_hard,   \* <<the array deploy wrote as hard pseudo-labels>>
    \* ModelEMA and the student network it shadows
    ema_pc,             \* "idle", "step" (optimizer step next), "update"
    student,            \* model.state_dict(): name -> weight
    ema,                \* self.ema.state_dict(): name -> weight
    decay,              \* self.decay
    wd,                 \* self.wd = lr * wdecay
    ema_has_module,     \* self.ema_has_module
    msd,                \* the local msd of the latest update call
    updates,            \* completed update calls
    \* EMAFixMatchStage2.train_epoch
    fm_pc,              \* "idle", "epoch", "done", "evaluated", "StopIteration"
    args_ema,           \* args.ema
    feature_ema,        \* feature teacher: the student weights it averaged
    classifier_ema,     \* classifier teacher: the student weights it averaged
    eval_reads,         \* the weights evaluate_forward ran the data through
    train_iterations,   \* self.train_iterations (N)
    len_l,              \* len(self.trainloader_l)
    len_u,              \* len(self.trainloader_u)
    u_batch,            \* examples per unlabeled batch
    fixmatch_t,         \* args.fixmatch_t
    fixmatch_lambda,    \* args.fixmatch_lambda
    batch_idx,          \* the loop variable: steps completed so far
    iter_l,             \* batches drawn from iter_l
    iter_u,             \* batches drawn from the current iter_u
    consumed_u,         \* per step, the position of the unlabeled batch drawn
    opt_steps,          \* calls of self.opt_net.step()
    logits_l,           \* logits[:batch_size]
    logits_u_w,         \* weak-view logits of the step
    logits_u_s,         \* strong-view logits of the step
    loss_l,             \* self.net.criterion_cls(logits_l, labels_l)
    targets_u,          \* pseudo-labels of the step
    mask,               \* max_probs.ge(fixmatch_t).float()
    loss_u,             \* ln(arg) / den
    loss,               \* base + coef * ln(arg)
    \* Imbalance Reweighter (LDAMSemiStage2.train, lines 74-79)
    rw_pc,              \* "idle", "ready", "done"
    beta,               \* betas[idx]
    train_annotation_counts, \* self.train_annotation_counts
    effective_num,      \* 1.0 - beta ** counts
    per_cls_weights,    \* the normalised per-class weights
    \* MemoryStage1.centroids_cal
    cal_pc,             \* "idle", "loop", "divide", "done", "RuntimeError"
    args_class_indices, \* args.class_indices, the class configuration
    trainset,           \* the labeled examples: <<label, feature vector>>
    cal_batch,          \* batches of the loader consumed
    centroids,          \* the accumulator, then the returned table
    \* PlainStage1.train
    t1_pc,              \* "idle", "epoch", "save", "done"
    num_epochs,         \* self.num_epochs
    epoch,              \* the loop variable
    best_f1,            \* best_f1
    val_f1s,            \* the validation F1 of every finished epoch
    best_calls,         \* the epochs in which update_best() was called
    best_weights,       \* the epoch whose weights self.net holds as best
    saved,              \* <<the epoch whose weights save_model() wrote>>
    \* MemoryStage1.deploy
    dp_pc,              \* "idle", "ready", "cal", "epoch"
    centroid_file,      \* <<>> if centroids_path does not exist, else <<its values>>
    dp_centroids,       \* self.centroids: <<>> for None, else <<table>>
    deploy_calls,       \* calls of deploy so far
    cal_runs,           \* calls of centroids_cal so far
    cal_returns,        \* calls of centroids_cal that returned
    loads,              \* deploys that read centroids_path
    saved_table,        \* <<the table the latest tofile call was given>>
    \* CCT.load_data and CCT_CROP.load_data
    ld_pc,              \* "idle", "filter", "loop", "done", "AssertionError"
    ld_kind,            \* "CCT" or "CCT_CROP"
    ann_js,             \* ann_js['annotations']
    annotations,        \* the filtered list
    ld_i,               \* entries of annotations the for loop has taken
    self_data,          \* self.data
    self_labels,        \* self.labels
    self_bbox,          \* self.bbox
    \* EMAFixMatchStage2.save_ema_model and set_eval
    ck_pc,              \* "idle", "train", "saved", "loaded", or the error raised
    train_feature_ema,  \* state dict of self.feature_ema.ema when training
    train_classifier_ema, \* state dict of self.classifier_ema.ema when training
    checkpoint,         \* <<>> if no _ema.pth file exists, else <<ema_states>>
    eval_feature_ema,   \* state dict of self.feature_ema.ema made by set_eval
    eval_classifier_ema, \* state dict of self.classifier_ema.ema made by set_eval
    \* EMAFixMatchStage2.train and LDAMSemiStage2.train
    t2_pc,              \* "idle", "set_train", "epoch", "save", "revert", "reset",
                        \* "done", "AttributeError"
    t2_alg,             \* "EMAFixMatchStage2" or "LDAMSemiStage2"
    t2_args_ema,        \* args.ema
    t2_feature_ema,     \* <<>> if self.feature_ema is not set, else <<state dict>>
    t2_classifier_ema,  \* <<>> if self.classifier_ema is not set, else <<state dict>>
    t2_checkpoint,      \* <<>> if no _ema.pth file exists, else <<ema_states>>
    ema_accesses,       \* reads of self.feature_ema / self.classifier_ema so far
    t2_num_epochs,      \* self.num_epochs
    t2_epoch,           \* the loop variable of train
    best_acc,           \* best_acc, in units of 1 / MaxAcc
    best_epoch,         \* best_epoch
    val_accs,           \* val_acc_mac of the epochs so far
    t2_best_calls,      \* the epochs in which self.net.update_best() ran
    net_weights,        \* the weights of self.net
    net_best_weights,   \* self.net.best_weights
    t2_saved,           \* <<the weights save_model() wrote>>
    pseudo_from,        \* <<the weights that produced self.pseudo_labels_hard>>
    ps_resets,          \* calls of pseudo_label_reset so far
    loader_from         \* the pseudo_label_reset call the train loader was built from

gateVars == <<alg, gate_pc, raw_logits, feats, self_centroids,
              reachability_scale, theta, ood, logits, max_probs, total_preds,
              init_pseudo_hard>>

emaVars == <<ema_pc, student, ema, decay, wd, ema_has_module, msd, updates>>

fmVars == <<fm_pc, args_ema, feature_ema, classifier_ema, eval_reads,
            train_iterations, len_l, len_u, u_batch, fixmatch_t,
            fixmatch_lambda, batch_idx, iter_l, iter_u, consumed_u, opt_steps,
            logits_l, logits_u_w, logits_u_s, loss_l, targets_u, mask, loss_u,
            loss>>

rwVars == <<rw_pc, beta, train_annotation_counts, effective_num, per_cls_weights>>

calVars == <<cal_pc, args_class_indices, trainset, cal_batch, centroids>>

t1Vars == <<t1_pc, num_epochs, epoch, best_f1, val_f1s, best_calls,
            best_weights, saved>>

\* MemoryStage1.deploy
dpVars == <<dp_pc, centroid_file, dp_centroids, deploy_calls, cal_runs, cal_returns,
            loads, saved_table>>

\* CCT.load_data and CCT_CROP.load_data
ldVars == <<ld_pc, ld_kind, ann_js, annotations, ld_i, self_data, self_labels,
           self_bbox>>

\* EMAFixMatchStage2.save_ema_model and set_eval
ckVars == <<ck_pc, train_feature_ema, train_classifier_ema, checkpoint,
            eval_feature_ema, eval_classifier_ema>>

\* EMAFixMatchStage2.train and LDAMSemiStage2.train
t2Vars == <<t2_pc, t2_alg, t2_args_ema, t2_feature_ema, t2_classifier_ema,
            t2_checkpoint, ema_accesses, t2_num_epochs, t2_epoch, best_acc,
            best_epoch, val_accs, t2_best_calls, net_weights, net_best_weights,
            t2_saved, pseudo_from, ps_resets, loader_from>>

orchVars == <<dpVars, ldVars, ckVars, t2Vars>>

\* The orchestration variables other than a component's own.
dpOthers == <<ldVars, ckVars, t2Vars>>
ldOthers == <<dpVars, ckVars, t2Vars>>
ckOthers == <<dpVars, ldVars, t2Vars>>
t2Others == <<dpVars, ldVars, ckVars>>

vars == <<gateVars, emaVars, fmVars, rwVars, calVars, t1Vars, orchVars>>

(* ----------------------- input domains --------------------------------- *)
\* Thresholds in [0, 1] with denominators up to ThetaDen.
Thetas == UNION {{Rat(n, d) : n \in 0 .. d} : d \in 1 .. ThetaDen}

LogitRows == [Classes -> 0 .. MaxLogit]
FeatVecs == [Dims -> 0 .. MaxFeat]
LogitData == UNION {[1 .. n -> LogitRows] : n \in 1 .. MaxData}

\* The centroid table of one one-hot example per class: the identity matrix.
IdentityCentroids == [c \in Classes |-> [j \in Dims |-> IF c = j THEN One ELSE Zero]]

\* DataLoader(shuffle=False): consecutive chunks of bs examples, the last
\* one possibly shorter.
Chunk(data, bs) ==
    LET n == Len(data)
        nb == (n + bs - 1) \div bs
    IN  [b \in 1 .. nb |->
            SubSeq(data, (b - 1) * bs + 1, IF b * bs < n THEN b * bs ELSE n)]

\* np.concatenate(total, axis=0)
RECURSIVE Concatenate(_)
Concatenate(total) ==
    IF total = <<>> THEN <<>> ELSE Head(total) \o Concatenate(Tail(total))

(* --------------------- reachability rescaling -------------------------- *)
\* Squared Euclidean distance of a feature vector to one centroid row.
Dist2(f, cen) ==
    RatSum([j \in Dims |-> RatMul(RatSub(<<f[j], 1>>, cen[j]),
                                  RatSub(<<f[j], 1>>, cen[j]))], 0, FeatDim - 1)

\* values_nn[:, 0] squared: the smallest squared distance to any centroid.
MinDist2(f, cents) ==
    CHOOSE v \in {Dist2(f, cents[c]) : c \in Classes} :
        \A c \in Classes : ~RatLt(Dist2(f, cents[c]), v)

\* The square root of a rational whose numerator and denominator are squares.
HasRatSqrt(r) == IsSquare(r[1]) /\ IsSquare(r[2])
RatSqrt(r) == <<ISqrt(r[1]), ISqrt(r[2])>>

\* values_nn[:, 0]
DMin(f, cents) == RatSqrt(MinDist2(f, cents))

\* One logit times reachability_scale / d_min.  With d_min = 0 the factor is
\* +inf (scale > 0), and inf * 0 is NaN.
ScaleLogit(k, scale, dmin) ==
    IF dmin[1] = 0
    THEN (IF k = 0 THEN "nan" ELSE IF k > 0 THEN "inf" ELSE "-inf")
    ELSE LET r == RatMul(<<scale * k, 1>>, <<dmin[2], dmin[1]>>) IN r[1] \div r[2]

\* The inputs whose rescaled logits are again whole multiples of ln 2 (or
\* non-finite): the nearest-centroid distance is rational and divides
\* scale * logit.
Representable(row, f, cents, scale) ==
    /\ HasRatSqrt(MinDist2(f, cents))
    /\ LET dmin == DMin(f, cents)
       IN  dmin[1] # 0 =>
               \A c \in Classes :
                   RatMul(<<scale * row[c], 1>>, <<dmin[2], dmin[1]>>)[2] = 1

Reachability_flip(row, f, cents, scale) ==
    [c \in Classes |-> ScaleLogit(0 - row[c], scale, DMin(f, cents))]

\* Lines 57-66 of deploy_epoch for one example: the rescaled logits.
Reachability(row, f, cents, scale) ==
    [c \in Classes |-> ScaleLogit(row[c], scale, DMin(f, cents))]

(* ------------------------ Confidence Gate ------------------------------ *)
Field(recs, name) == [b \in DOMAIN recs |-> recs[b][name]]

\* F.softmax(logits, dim=1).max(dim=1) of a batch of finite rows.
SoftmaxMax(lg) ==
    [max_probs |-> [i \in DOMAIN lg |-> RowMax(Softmax(lg[i]))],
     preds     |-> [i \in DOMAIN lg |-> RowArgMax(Softmax(lg[i]))]]

ConfidenceGate_le(preds, mp, th) ==
    [i \in DOMAIN preds |->
        IF ~IsNaN(mp[i]) /\ ~RatLt(th, mp[i]) THEN -1 ELSE preds[i]]

\* preds[max_probs < theta] = -1.  A NaN compares False with everything.
ConfidenceGate(preds, mp, th) ==
    [i \in DOMAIN preds |->
        IF ~IsNaN(mp[i]) /\ RatLt(mp[i], th) THEN -1 ELSE preds[i]]

\* The loop body of PlainStage1.evaluate_epoch for one batch.
PlainBatch(lg, th) ==
    LET m == SoftmaxMax(lg)
    IN  [logits |-> lg, max_probs |-> m.max_probs,
         preds |-> ConfidenceGate(m.preds, m.max_probs, th)]

\* The loop body of EMAFixMatchStage2.evaluate_forward for one batch.
ForwardBatch(lg, th, o) ==
    LET m == SoftmaxMax(lg)
    IN  [logits |-> lg, max_probs |-> m.max_probs,
         preds |-> IF o THEN ConfidenceGate(m.preds, m.max_probs, th) ELSE m.preds]

\* Lines 57-72 of MemoryStage1.deploy_epoch for one example of the batch.  A
\* row with a non-finite logit has an all-NaN softmax; nani is the index
\* torch.max reports for such a row.
DeployExample(row, f, cents, scale, th, nani) ==
    LET dmin == DMin(f, cents)
    IN  IF dmin[1] = 0
        THEN [logits |-> Reachability(row, f, cents, scale),
              max_probs |-> NaN, preds |-> nani]
        ELSE LET sc == Reachability(row, f, cents, scale)
                 p == Softmax(sc)
                 mp == RowMax(p)
             IN  [logits |-> sc, max_probs |-> mp,
                  preds |-> IF RatLt(mp, th) THEN -1 ELSE RowArgMax(p)]

\* The loop body of MemoryStage1.deploy_epoch for one batch of (row, feature)
\* pairs.
DeployBatch(lg, fs, cents, scale, th, nanidx) ==
    LET ex == [i \in DOMAIN lg |->
                 DeployExample(lg[i], fs[i], cents, scale, th, nanidx[i])]
    IN  [logits |-> Field(ex, "logits"), max_probs |-> Field(ex, "max_probs"),
         preds |-> Field(ex, "preds")]

Algs == {"PlainStage1", "MemoryStage1", "EMAFixMatchStage2"}

ZeroLoss == [arg |-> One, den |-> 1]

RwIdle ==
    /\ rw_pc = "idle" /\ beta = Zero /\ train_annotation_counts = <<>>
    /\ effective_num = <<>> /\ per_cls_weights = <<>>

CalIdle ==
    /\ cal_pc = "idle" /\ args_class_indices = "None" /\ trainset = <<>>
    /\ cal_batch = 0 /\ centroids = "None"

T1Idle ==
    /\ t1_pc = "idle" /\ num_epochs = 0 /\ epoch = 0 /\ best_f1 = 0
    /\ val_f1s = <<>> /\ best_calls = {} /\ best_weights = "None"
    /\ saved = "None"

DpIdle ==
    /\ dp_pc = "idle" /\ centroid_file = <<>> /\ dp_centroids = <<>>
    /\ deploy_calls = 0 /\ cal_runs = 0 /\ cal_returns = 0 /\ loads = 0
    /\ saved_table = <<>>

LdIdle ==
    /\ ld_pc = "idle" /\ ld_kind = "none" /\ ann_js = <<>> /\ annotations = <<>>
    /\ ld_i = 0 /\ self_data = <<>> /\ self_labels = <<>> /\ self_bbox = <<>>

CkIdle ==
    /\ ck_pc = "idle" /\ train_feature_ema = <<>> /\ train_classifier_ema = <<>>
    /\ checkpoint = <<>> /\ eval_feature_ema = <<>> /\ eval_classifier_ema = <<>>

T2Idle ==
    /\ t2_pc = "idle" /\ t2_alg = "none" /\ t2_args_ema = FALSE
    /\ t2_feature_ema = <<>> /\ t2_classifier_ema = <<>> /\ t2_checkpoint = <<>>
    /\ ema_accesses = 0 /\ t2_num_epochs = 0 /\ t2_epoch = 0 /\ best_acc = 0
    /\ best_epoch = 0 /\ val_accs = <<>> /\ t2_best_calls = {}
    /\ net_weights = 0 /\ net_best_weights = 0 /\ t2_saved = <<>>
    /\ pseudo_from = <<>> /\ ps_resets = 0 /\ loader_from = 0

OrchIdle == DpIdle /\ LdIdle /\ CkIdle /\ T2Idle

OthersIdle == RwIdle /\ CalIdle /\ T1Idle /\ OrchIdle

NoReads == [source |-> "none", feature |-> <<>>, classifier |-> <<>>]

FmIdle ==
    /\ fm_pc = "idle" /\ args_ema = FALSE /\ feature_ema = <<>>
    /\ classifier_ema = <<>> /\ eval_reads = NoReads
    /\ train_iterations = 0 /\ len_l = 0 /\ len_u = 0
    /\ u_batch = 0 /\ fixmatch_t = Zero /\ fixmatch_lambda = Zero
    /\ batch_idx = 0 /\ iter_l = 0 /\ iter_u = 0 /\ consumed_u = <<>>
    /\ opt_steps = 0 /\ logits_l = <<>> /\ logits_u_w = <<>> /\ logits_u_s = <<>>
    /\ loss_l = Zero /\ targets_u = <<>> /\ mask = <<>> /\ loss_u = ZeroLoss
    /\ loss = [base |-> Zero, coef |-> Zero, arg |-> One]

EmaIdle ==
    /\ ema_pc = "idle" /\ student = <<>> /\ ema = <<>> /\ decay = Zero
    /\ wd = Zero /\ ema_has_module = FALSE /\ msd = <<>> /\ updates = 0

GateIdle ==
    /\ alg = "none" /\ gate_pc = "idle"
    /\ raw_logits = <<>> /\ feats = <<>> /\ self_centroids = "None"
    /\ reachability_scale = 0 /\ theta = Zero /\ ood = FALSE
    /\ logits = <<>> /\ max_probs = <<>> /\ total_preds = <<>>
    /\ init_pseudo_hard = <<>>

\* The (logit row, feature vector) pairs deploy_epoch can be given.
DeployExamples(cents, scale) ==
    {e \in LogitRows \X FeatVecs : Representable(e[1], e[2], cents, scale)}

GateInit ==
    /\ alg \in Algs
    /\ gate_pc = "ready"
    /\ theta \in Thetas
    /\ ood \in (IF alg = "EMAFixMatchStage2" THEN BOOLEAN ELSE {FALSE})
    /\ self_centroids =
           (IF alg = "MemoryStage1" THEN IdentityCentroids ELSE "None")
    /\ reachability_scale \in
           (IF alg = "MemoryStage1" THEN ReachabilityScales ELSE {0})
    /\ IF alg = "MemoryStage1"
       THEN \E n \in 1 .. MaxDeploy :
                \E d \in [1 .. n -> DeployExamples(self_centroids,
                                                    reachability_scale)] :
                    /\ raw_logits = [i \in 1 .. n |-> d[i][1]]
                    /\ feats = [i \in 1 .. n |-> d[i][2]]
       ELSE /\ raw_logits \in LogitData
            /\ feats = <<>>
    /\ logits = <<>> /\ max_probs = <<>> /\ total_preds = <<>>
    /\ init_pseudo_hard = <<>>
    /\ EmaIdle /\ FmIdle /\ OthersIdle

\* PlainStage1.evaluate_epoch over the whole loader.
evaluate_epoch ==
    /\ alg = "PlainStage1" /\ gate_pc = "ready"
    /\ LET out == [b \in DOMAIN Chunk(raw_logits, batch_size) |->
                      PlainBatch(Chunk(raw_logits, batch_size)[b], theta)]
       IN  /\ logits' = Concatenate(Field(out, "logits"))
           /\ max_probs' = Concatenate(Field(out, "max_probs"))
           /\ total_preds' = Concatenate(Field(out, "preds"))
    /\ gate_pc' = "done"
    /\ UNCHANGED <<alg, raw_logits, feats, self_centroids,
                   reachability_scale, theta, ood, init_pseudo_hard>>
    /\ UNCHANGED <<emaVars, fmVars, rwVars, calVars, t1Vars, orchVars>>

\* EMAFixMatchStage2.evaluate_forward over the whole loader.
evaluate_forward ==
    /\ alg = "EMAFixMatchStage2" /\ gate_pc = "ready"
    /\ LET out == [b \in DOMAIN Chunk(raw_logits, batch_size) |->
                      ForwardBatch(Chunk(raw_logits, batch_size)[b], theta, ood)]
       IN  /\ logits' = Concatenate(Field(out, "logits"))
           /\ max_probs' = Concatenate(Field(out, "max_probs"))
           /\ total_preds' = Concatenate(Field(out, "preds"))
    /\ gate_pc' = "done"
    /\ UNCHANGED <<alg, raw_logits, feats, self_centroids,
                   reachability_scale, theta, ood, init_pseudo_hard>>
    /\ UNCHANGED <<emaVars, fmVars, rwVars, calVars, t1Vars, orchVars>>

\* MemoryStage1.deploy_epoch over the whole loader.
deploy_epoch ==
    /\ alg = "MemoryStage1" /\ gate_pc = "ready"
    /\ \E nanidx \in [{i \in 1 .. Len(raw_logits) :
                          DMin(feats[i], self_centroids)[1] = 0} -> Classes] :
         LET lgs == Chunk(raw_logits, batch_size)
             fts == Chunk(feats, batch_size)
             first(b) == (b - 1) * batch_size
             out == [b \in DOMAIN lgs |->
                       DeployBatch(lgs[b], fts[b], self_centroids,
                                   reachability_scale,
                                   theta,
                                   [i \in DOMAIN lgs[b] |->
                                       IF first(b) + i \in DOMAIN nanidx
                                       THEN nanidx[first(b) + i] ELSE 0])]
         IN  /\ logits' = Concatenate(Field(out, "logits"))
             /\ max_probs' = Concatenate(Field(out, "max_probs"))
             /\ total_preds' = Concatenate(Field(out, "preds"))
    /\ gate_pc' = "done"
    /\ UNCHANGED <<alg, raw_logits, feats, self_centroids,
                   reachability_scale, theta, ood, init_pseudo_hard>>
    /\ UNCHANGED <<emaVars, fmVars, rwVars, calVars, t1Vars, orchVars>>

\* Lines 146-168 of MemoryStage1.deploy: the predictions deploy_epoch
\* returned are written as the hard pseudo-labels, under either value of
\* args.soft.
deploy_tofile ==
    /\ alg = "MemoryStage1" /\ gate_pc = "done"
    /\ init_pseudo_hard' = <<total_preds>>
    /\ gate_pc' = "saved"
    /\ UNCHANGED <<alg, raw_logits, feats, self_centroids, reachability_scale,
                   theta, ood, logits, max_probs, total_preds>>
    /\ UNCHANGED <<emaVars, fmVars, rwVars, calVars, t1Vars, orchVars>>

GateNext == evaluate_epoch \/ evaluate_forward \/ deploy_epoch \/ deploy_tofile

SpecGate == GateInit /\ [][GateNext]_vars

\* Whether the gate was applied by the evaluation that ran.
Gated == alg \in {"PlainStage1", "MemoryStage1"} \/ ood

\* 2^(row[c] - min) and their sum: the softmax numerators and denominator.
ExpOf(row, c) == Pow(2, row[c] - Min({row[k] : k \in Classes}))
ExpSum(row) == IntSum([c \in Classes |-> ExpOf(row, c)], 0, NumClasses - 1)

\* Every softmax probability of the row is strictly below th.
AllBelow(row, th) ==
    \A c \in Classes : ExpOf(row, c) * th[2] < th[1] * ExpSum(row)

\* C1 (Confidence Gate): after evaluate_epoch, deploy_epoch (on the rescaled
\* logits) or evaluate_forward with ood=True, every prediction of an example
\* with finite logits is -1 or a class of maximal softmax probability, and
\* it is -1 exactly when the maximal probability is strictly below theta;
\* there is one prediction per example.
C1_ConfidenceGate ==
    (gate_pc = "done" /\ Gated) =>
        /\ Len(total_preds) = Len(raw_logits)
        /\ \A i \in 1 .. Len(total_preds) :
              ~IsNaN(max_probs[i]) =>
                  /\ total_preds[i] \in {-1} \cup
                        {c \in Classes : \A k \in Classes : logits[i][c] >= logits[i][k]}
                  /\ (total_preds[i] = -1) <=> AllBelow(logits[i], theta)

\* C1 witness: one loader in which the gate rejects an example and keeps
\* another whose max probability equals theta.
C1_Witness ==
    /\ gate_pc = "done" /\ Gated
    /\ \E i, j \in 1 .. Len(total_preds) :
          /\ total_preds[i] = -1
          /\ total_preds[j] \in Classes
          /\ max_probs[j] = theta


(* ---------------------------- ModelEMA --------------------------------- *)
\* Parameter names are tuples of characters, so that 'bn' not in k is the
\* substring test of the code.
Contains(sub, str) ==
    \E i \in 1 .. (Len(str) - Len(sub) + 1) : SubSeq(str, i, i + Len(sub) - 1) = sub

ModulePrefix == <<"m", "o", "d", "u", "l", "e", ".">>
ParamNames == {<<"b", "n", "1", ".", "w">>, <<"f", "c", ".", "w">>}

\* The state_dict keys of a network, wrapped in a 'module' container or not.
StateDictKeys(has_module) ==
    {IF has_module THEN ModulePrefix \o k ELSE k : k \in ParamNames}

\* The decay given to ModelEMA.  The orchestrators pass 0.999; 1/2 stands
\* for a decay strictly between 0 and 1.
Decays == {Zero, <<1, 2>>, One}
\* lr * wdecay of the constructor.
Lrs == {One}
Wdecays == {Zero, <<1, 2>>}

\* Weights an optimizer step can leave in the student.
Weights == {<<w, 1>> : w \in 0 .. MaxWeight}

\* The keys of a state dict in iteration order.
RECURSIVE KeySeq(_)
KeySeq(S) ==
    IF S = {} THEN <<>>
    ELSE LET k == CHOOSE x \in S : \A y \in S : Len(x) <= Len(y)
         IN  <<k>> \o KeySeq(S \ {k})

\* ModelEMA.__init__: the teacher is a deep copy of the model.
EmaInit ==
    /\ ema_pc = "step"
    /\ ema_has_module \in BOOLEAN
    /\ student = [k \in StateDictKeys(ema_has_module) |-> One]
    /\ ema = student
    /\ decay \in Decays
    /\ \E lr \in Lrs, wdecay \in Wdecays : wd = RatMul(lr, wdecay)
    /\ msd = <<>>
    /\ updates = 0
    /\ GateIdle /\ FmIdle /\ OthersIdle

\* self.opt_net.step(): the student's weights move.
opt_step ==
    /\ ema_pc = "step" /\ updates < MaxSteps
    /\ student' \in [DOMAIN student -> Weights]
    /\ ema_pc' = "update"
    /\ UNCHANGED <<ema, decay, wd, ema_has_module, msd, updates>>
    /\ UNCHANGED <<gateVars, fmVars, rwVars, calVars, t1Vars, orchVars>>

EmaAverage_swapped(ema_v, d, model_v) ==
    RatAdd(RatMul(ema_v, RatSub(One, d)), RatMul(d, model_v))

\* ema_v * self.decay + (1. - self.decay) * model_v
EmaAverage(ema_v, d, model_v) ==
    RatAdd(RatMul(ema_v, d), RatMul(RatSub(One, d), model_v))

\* The for loop of ModelEMA.update over the teacher's keys ks, from teacher
\* entries e and local dict m: e is written in place, m[k] is rebound.
RECURSIVE UpdateLoop(_, _, _, _, _, _)
UpdateLoop(ks, e, m, needs_module, d, w) ==
    IF ks = <<>> THEN [ema |-> e, msd |-> m]
    ELSE LET k == IF needs_module THEN ModulePrefix \o Head(ks) ELSE Head(ks)
             e2 == [e EXCEPT ![Head(ks)] = EmaAverage(e[Head(ks)], d, m[k])]
             m2 == IF ~Contains(<<"b", "n">>, k)
                   THEN [m EXCEPT ![k] = RatMul(m[k], RatSub(One, w))]
                   ELSE m
         IN  UpdateLoop(Tail(ks), e2, m2, needs_module, d, w)

\* hasattr(model, 'module'): the student is the network the teacher was
\* copied from.
HasModule(sd) ==
    \E k \in DOMAIN sd :
        Len(k) >= Len(ModulePrefix) /\ SubSeq(k, 1, Len(ModulePrefix)) = ModulePrefix

\* ModelEMA.update(model).  msd is a dict local to the call: rebinding its
\* entries leaves the model's own parameters as they were.
update ==
    /\ ema_pc = "update"
    /\ LET needs_module == HasModule(student) /\ ~ema_has_module
           r == UpdateLoop(KeySeq(DOMAIN ema), ema, student, needs_module, decay, wd)
       IN  /\ ema' = r.ema
           /\ msd' = r.msd
    /\ updates' = updates + 1
    /\ ema_pc' = "step"
    /\ UNCHANGED <<student, decay, wd, ema_has_module>>
    /\ UNCHANGED <<gateVars, fmVars, rwVars, calVars, t1Vars, orchVars>>

EmaNext == opt_step \/ update

SpecEMA == EmaInit /\ [][EmaNext]_vars

\* The student entry of the same name as teacher entry k.
SameNamed(k) ==
    IF HasModule(student) /\ ~ema_has_module THEN ModulePrefix \o k ELSE k

\* C3 (EMA Teacher update): every update call sets each teacher entry to
\* decay * teacher + (1 - decay) * student of the same-named student entry;
\* with decay = 1 no step ever changes the teacher, and with decay = 0 the
\* teacher equals the student right after an update.
C3_EmaUpdate ==
    [][/\ update =>
            \A k \in DOMAIN ema :
                ema'[k] = RatAdd(RatMul(decay, ema[k]),
                                 RatMul(RatSub(One, decay), student[SameNamed(k)]))
       /\ decay = One => ema' = ema
       /\ (decay = Zero /\ update) =>
            \A k \in DOMAIN ema : ema'[k] = student'[SameNamed(k)]]_vars

\* C3 witness: after two updates with decay 1 the teacher still holds its
\* initial weights although the student has moved away from them.
C3_Witness ==
    /\ updates = 2 /\ decay = One /\ ema_pc = "step"
    /\ \A k \in DOMAIN ema : ema[k] = One /\ student[k] # One

\* C8 (EMA decoupled weight decay), as claimed: an update call multiplies
\* every student parameter without 'bn' in its name by 1 - lr * weight_decay
\* and leaves the normalization parameters alone.
C8_StudentDecayed ==
    [][update =>
          \A k \in DOMAIN student :
              student'[k] = IF Contains(<<"b", "n">>, k) THEN student[k]
                            ELSE RatMul(student[k], RatSub(One, wd))]_vars


(* ------------------ EMAFixMatchStage2.train_epoch ---------------------- *)
\* args.fixmatch_lambda
Lambdas == {Zero, One, <<2, 1>>}
\* Values the labeled loss can take.
LossVals == {<<3, 2>>}
\* The logits of the labeled rows of a step.
LabeledRow == [c \in Classes |-> 0]

\* torch.cat((data_l, data_u_w, data_u_s)) through the network: one row of
\* logits per input row.
Cat3(l, w, st) == l \o w \o st

\* logits[:batch_size]
LogitsL(lg, bs) == SubSeq(lg, 1, bs)

\* logits[batch_size:].chunk(2): chunks of ceil(n / 2) rows.
Chunk2(lg, bs) ==
    LET rest == SubSeq(lg, bs + 1, Len(lg))
        h == (Len(rest) + 1) \div 2
    IN  <<SubSeq(rest, 1, h), SubSeq(rest, h + 1, Len(rest))>>

FixMatchMask_gt(mp, t) == [i \in DOMAIN mp |-> IF RatLt(t, mp[i]) THEN 1 ELSE 0]

FixMatchMask_all(mp, t) == [i \in DOMAIN mp |-> 1]

\* max_probs.ge(self.args.fixmatch_t).float()
FixMatchMask(mp, t) == [i \in DOMAIN mp |-> IF RatGe(mp[i], t) THEN 1 ELSE 0]

\* F.cross_entropy(logits_u_s, targets_u, reduction='none'): element i is
\* ln(sum_c exp(s[c]) / exp(s[target])), kept as the argument of ln.
CrossEntropy(st, tg) ==
    [i \in DOMAIN st |->
        LET m == Min({st[i][c] : c \in Classes})
            e == [c \in Classes |-> Pow(2, st[i][c] - m)]
        IN  Rat(IntSum(e, 0, NumClasses - 1), e[tg[i]])]

MaskedMean_selected(ce, mk) ==
    [arg |-> RatProd([i \in DOMAIN ce |-> IF mk[i] = 1 THEN ce[i] ELSE One],
                     1, Len(ce)),
     den |-> IntSum(mk, 1, Len(mk))]

\* (ce * mask).mean(): ln x * 1 = ln x and ln x * 0 = 0 = ln 1, and the mean
\* divides the sum, the ln of the product, by the number of elements.
MaskedMean(ce, mk) ==
    [arg |-> RatProd([i \in DOMAIN ce |-> IF mk[i] = 1 THEN ce[i] ELSE One],
                     1, Len(ce)),
     den |-> Len(ce)]

\* loss_l + self.args.fixmatch_lambda * loss_u.  A product with an exact
\* zero is zero.
TotalLoss(ll, lam, lu) ==
    IF lam = Zero \/ lu.arg = One
    THEN [base |-> ll, coef |-> Zero, arg |-> One]
    ELSE [base |-> ll, coef |-> RatMul(lam, <<1, lu.den>>), arg |-> lu.arg]

FmInitCommon ==
    /\ fm_pc = "epoch"
    /\ args_ema \in BOOLEAN
    /\ feature_ema = <<>> /\ classifier_ema = <<>> /\ eval_reads = NoReads
    /\ batch_idx = 0 /\ iter_l = 0 /\ iter_u = 0 /\ consumed_u = <<>>
    /\ opt_steps = 0 /\ logits_l = <<>> /\ logits_u_w = <<>> /\ logits_u_s = <<>>
    /\ loss_l = Zero /\ targets_u = <<>> /\ mask = <<>> /\ loss_u = ZeroLoss
    /\ loss = [base |-> Zero, coef |-> Zero, arg |-> One]
    /\ GateIdle /\ EmaIdle /\ OthersIdle

\* The start of train_epoch for runs of several steps; the two loaders'
\* lengths are independent of N and of each other.
FmInit ==
    /\ train_iterations \in 1 .. MaxIter
    /\ len_l \in {n \in 0 .. (MaxIter + 1) :
                    n \in (train_iterations - 1) .. (train_iterations + 1)}
    /\ len_u \in 0 .. (train_iterations + 1)
    /\ u_batch = 1
    /\ fixmatch_t = Rat(2, 3)
    /\ fixmatch_lambda = One
    /\ FmInitCommon

\* The start of train_epoch for a single step over every threshold, weight
\* and unlabeled batch size.
FmStepInit ==
    /\ train_iterations = 1 /\ len_l = 1 /\ len_u = 1
    /\ u_batch \in 1 .. batch_size
    /\ fixmatch_t \in Thetas
    /\ fixmatch_lambda \in Lambdas
    /\ FmInitCommon

NextUnlabeled_notry(it, n) ==
    IF it < n THEN [raised |-> FALSE, pos |-> it, it |-> it + 1]
    ELSE [raised |-> TRUE, pos |-> 0, it |-> it]

\* Lines 126-130: next(iter_u), and on StopIteration a fresh iter(loader_u)
\* and next() again, which raises for an empty loader.
NextUnlabeled(it, n) ==
    IF it < n THEN [raised |-> FALSE, pos |-> it, it |-> it + 1]
    ELSE IF n = 0 THEN [raised |-> TRUE, pos |-> 0, it |-> 0]
    ELSE [raised |-> FALSE, pos |-> 0, it |-> 1]

\* The weights of self.net are named by the number of optimizer steps that
\* made them, and a teacher by the student weights its updates averaged, in
\* order; a teacher that averaged nothing holds the copy made by ModelEMA.
TeacherUpdate_before(teacher, before, after) == Append(teacher, before)

\* Lines 166-172: self.opt_net.step() takes the student from weights before
\* to weights after, and then <teacher>.update(<student>) runs.
TeacherUpdate(teacher, before, after) == Append(teacher, after)

\* One iteration of the for loop of train_epoch (lines 111-173).  A
\* StopIteration that next() raises outside the try block, or inside the
\* except handler, leaves train_epoch.
train_step ==
    /\ fm_pc = "epoch" /\ batch_idx < train_iterations
    /\ IF iter_l >= len_l \/ NextUnlabeled(iter_u, len_u).raised
       THEN /\ fm_pc' = "StopIteration"
            /\ iter_l' = IF iter_l >= len_l THEN iter_l ELSE iter_l + 1
            /\ UNCHANGED <<batch_idx, iter_u, consumed_u, opt_steps, logits_l,
                           logits_u_w, logits_u_s, loss_l, targets_u, mask,
                           loss_u, loss, feature_ema, classifier_ema>>
       ELSE /\ iter_l' = iter_l + 1
            /\ iter_u' = NextUnlabeled(iter_u, len_u).it
            /\ consumed_u' = Append(consumed_u, NextUnlabeled(iter_u, len_u).pos)
            /\ \E w \in [1 .. u_batch -> LogitRows], st \in [1 .. u_batch -> LogitRows],
                  ll \in LossVals :
                 LET lg == Cat3([i \in 1 .. batch_size |-> LabeledRow], w, st)
                     u == Chunk2(lg, batch_size)
                     m == SoftmaxMax(u[1])
                     mk == FixMatchMask(m.max_probs, fixmatch_t)
                     lu == MaskedMean(CrossEntropy(u[2], m.preds), mk)
                 IN  /\ logits_l' = LogitsL(lg, batch_size)
                     /\ logits_u_w' = u[1]
                     /\ logits_u_s' = u[2]
                     /\ loss_l' = ll
                     /\ targets_u' = m.preds
                     /\ mask' = mk
                     /\ loss_u' = lu
                     /\ loss' = TotalLoss(ll, fixmatch_lambda, lu)
            /\ opt_steps' = opt_steps + 1
            /\ IF args_ema
               THEN /\ feature_ema' =
                         TeacherUpdate(feature_ema, opt_steps, opt_steps + 1)
                    /\ classifier_ema' =
                         TeacherUpdate(classifier_ema, opt_steps, opt_steps + 1)
               ELSE UNCHANGED <<feature_ema, classifier_ema>>
            /\ batch_idx' = batch_idx + 1
            /\ fm_pc' = IF batch_idx + 1 = train_iterations THEN "done" ELSE "epoch"
    /\ UNCHANGED <<args_ema, eval_reads, train_iterations, len_l, len_u, u_batch,
                   fixmatch_t, fixmatch_lambda>>
    /\ UNCHANGED <<gateVars, emaVars, rwVars, calVars, t1Vars, orchVars>>

\* The forward pass of evaluate_forward (lines 203-209) on the validation
\* data once train_epoch has returned: through the teachers if args.ema,
\* through self.net otherwise.
validation_forward ==
    /\ fm_pc = "done"
    /\ eval_reads' =
           IF args_ema
           THEN [source |-> "ema", feature |-> feature_ema,
                 classifier |-> classifier_ema]
           ELSE [source |-> "net", feature |-> <<opt_steps>>,
                 classifier |-> <<opt_steps>>]
    /\ fm_pc' = "evaluated"
    /\ UNCHANGED <<args_ema, feature_ema, classifier_ema, train_iterations, len_l,
                   len_u, u_batch, fixmatch_t, fixmatch_lambda, batch_idx, iter_l,
                   iter_u, consumed_u, opt_steps, logits_l, logits_u_w, logits_u_s,
                   loss_l, targets_u, mask, loss_u, loss>>
    /\ UNCHANGED <<gateVars, emaVars, rwVars, calVars, t1Vars, orchVars>>

FmNext == train_step \/ validation_forward

SpecFixMatch == FmInit /\ [][FmNext]_vars

SpecFixMatchStep == FmStepInit /\ [][FmNext]_vars


\* C9 (unlabeled iterator wrap-around): with at least N labeled batches and
\* at least one unlabeled batch no StopIteration leaves train_epoch, every
\* completed step made one optimizer step and drew unlabeled batch
\* k mod U (k the 0-based step), and the epoch ends after exactly N steps.
C9_WrapAround ==
    (len_l >= train_iterations /\ len_u >= 1 /\ fm_pc # "idle") =>
        /\ fm_pc \in {"epoch", "done", "evaluated"}
        /\ opt_steps = batch_idx /\ Len(consumed_u) = batch_idx
        /\ \A k \in 1 .. Len(consumed_u) : consumed_u[k] = (k - 1) % len_u
        /\ (fm_pc \in {"done", "evaluated"}) <=> (batch_idx = train_iterations)

\* C9 witness: three steps over two unlabeled batches draw batches 0, 1, 0.
C9_Witness ==
    /\ fm_pc = "done" /\ train_iterations = 3 /\ len_u = 2
    /\ len_l >= train_iterations
    /\ consumed_u = <<0, 1, 0>> /\ opt_steps = 3

\* Every weak-view max pseudo-probability of the latest step is below t.
AllWeakBelow == \A i \in 1 .. Len(logits_u_w) : AllBelow(logits_u_w[i], fixmatch_t)

\* C2 (Stage-2 consistency loss): after a step whose weak-view max
\* pseudo-probabilities are all below fixmatch_t, loss_u is exactly 0 and
\* the total loss is the labeled loss, whatever lambda is.
C2_ZeroConsistency ==
    (opt_steps >= 1 /\ AllWeakBelow) =>
        /\ loss_u.arg = One
        /\ loss = [base |-> loss_l, coef |-> Zero, arg |-> One]

\* C2 witness: a two-example batch all below the threshold, with a nonzero
\* lambda and a nonzero labeled loss.
C2_Witness ==
    /\ opt_steps = 1 /\ AllWeakBelow /\ Len(logits_u_w) = 2
    /\ fixmatch_lambda # Zero /\ loss_l # Zero /\ fixmatch_t # One

\* ln-argument of the cross-entropy of strong row s against target class t.
CeArg(s, t) == Rat(ExpSum(s), ExpOf(s, t))

RECURSIVE ProdOver(_, _)
ProdOver(S, f) ==
    IF S = {} THEN One
    ELSE LET i == CHOOSE x \in S : TRUE IN RatMul(f[i], ProdOver(S \ {i}, f))

\* C10 (consistency-loss denominator): loss_u is the sum, over the examples
\* the mask selects, of the cross-entropy of the strong-view logits against
\* the weak-view pseudo-label, divided by the full unlabeled batch size.
C10_FullBatchDenominator ==
    opt_steps >= 1 =>
        /\ loss_u.den = Len(logits_u_s)
        /\ loss_u.arg =
             ProdOver({i \in 1 .. Len(logits_u_s) : mask[i] = 1},
                      [i \in 1 .. Len(logits_u_s) |->
                          CeArg(logits_u_s[i], targets_u[i])])

\* C10 witness: a batch of two in which the mask selects exactly one
\* example, so the two denominators differ.
C10_Witness ==
    /\ opt_steps = 1 /\ Len(logits_u_s) = 2
    /\ mask[1] + mask[2] = 1 /\ loss_u.arg # One


(* --------------------- Imbalance Reweighter ---------------------------- *)
\* Floating point: a value is rounded to the nearest number with a
\* significand of p bits, ties to even (the exponent range is not modelled).
\* numpy computes with float64 and torch.FloatTensor holds float32; the
\* model keeps the two roundings and scales their 53 and 24 bits down to
\* DoubleBits and SingleBits.
RECURSIVE FlScale(_, _, _)
FlScale(q, e, p) ==
    IF q[1] \div q[2] >= Pow(2, p) THEN FlScale(RatDiv(q, <<2, 1>>), e + 1, p)
    ELSE IF q[1] \div q[2] < Pow(2, p - 1) THEN FlScale(RatMul(q, <<2, 1>>), e - 1, p)
    ELSE <<q, e>>

Fl(r, p) ==
    IF r[1] = 0 THEN Zero
    ELSE LET sgn == IF r[1] < 0 THEN -1 ELSE 1
             se == FlScale(<<Abs(r[1]), r[2]>>, 0, p)
             q == se[1]
             e == se[2]
             m0 == q[1] \div q[2]
             rem == q[1] % q[2]
             m == IF 2 * rem > q[2] \/ (2 * rem = q[2] /\ m0 % 2 = 1)
                  THEN m0 + 1 ELSE m0
         IN  RatMul(<<sgn * m, 1>>,
                    IF e >= 0 THEN <<Pow(2, e), 1>> ELSE <<1, Pow(2, 0 - e)>>)

Fl64(r) == Fl(r, DoubleBits)
Fl32(r) == Fl(r, SingleBits)

\* betas[idx].  The code fixes 0.9999; beta ranges over floating point
\* values strictly between 0 and 1 whose powers stay small.
Betas == {<<1, 2>>, <<3, 4>>, <<7, 8>>}

RECURSIVE RatPow(_, _)
RatPow(b, n) == IF n = 0 THEN One ELSE RatMul(b, RatPow(b, n - 1))

\* self.train_annotation_counts: one count, at least 1, per class that
\* occurs in the training set.
CountVectors == UNION {[1 .. n -> 1 .. MaxCount] : n \in 1 .. MaxVec}

\* effective_num = 1.0 - np.power(betas[idx], self.train_annotation_counts)
EffectiveNum(b, counts) ==
    [c \in DOMAIN counts |-> Fl64(RatSub(One, Fl64(RatPow(b, counts[c]))))]

RawWeights_inverse(b, eff) ==
    [c \in DOMAIN eff |-> Fl64(RatDiv(eff[c], Fl64(RatSub(One, b))))]

\* per_cls_weights = (1.0 - betas[idx]) / np.array(effective_num)
RawWeights(b, eff) ==
    [c \in DOMAIN eff |-> Fl64(RatDiv(Fl64(RatSub(One, b)), eff[c]))]

\* np.sum of a short vector: the entries are added from left to right.
RECURSIVE NpSum(_, _)
NpSum(w, k) ==
    IF k = 1 THEN w[1] ELSE Fl64(RatAdd(NpSum(w, k - 1), w[k]))

Normalise_unit(w) ==
    [c \in DOMAIN w |-> Fl64(RatDiv(w[c], NpSum(w, Len(w))))]

\* per_cls_weights / np.sum(per_cls_weights) * len(self.train_annotation_counts)
Normalise(w) ==
    [c \in DOMAIN w |->
        Fl64(RatMul(Fl64(RatDiv(w[c], NpSum(w, Len(w)))), <<Len(w), 1>>))]

\* torch.FloatTensor(per_cls_weights)
FloatTensor(w) == [c \in DOMAIN w |-> Fl32(w[c])]

RwInit ==
    /\ rw_pc = "ready"
    /\ beta \in Betas
    /\ train_annotation_counts \in CountVectors
    /\ effective_num = <<>> /\ per_cls_weights = <<>>
    /\ GateIdle /\ EmaIdle /\ FmIdle /\ CalIdle /\ T1Idle /\ OrchIdle

\* Lines 74-79 of LDAMSemiStage2.train.
ldam_weights ==
    /\ rw_pc = "ready"
    /\ effective_num' = EffectiveNum(beta, train_annotation_counts)
    /\ per_cls_weights' =
           FloatTensor(Normalise(RawWeights(beta,
               EffectiveNum(beta, train_annotation_counts))))
    /\ rw_pc' = "done"
    /\ UNCHANGED <<beta, train_annotation_counts>>
    /\ UNCHANGED <<gateVars, emaVars, fmVars, calVars, t1Vars, orchVars>>

RwNext == ldam_weights

SpecReweight == RwInit /\ [][RwNext]_vars

\* C4 (Imbalance Reweighter monotonicity), as claimed: of two classes the
\* one with the smaller count has the strictly larger weight.
C4_WeightsDecrease ==
    rw_pc = "done" =>
        \A a, b \in DOMAIN train_annotation_counts :
            train_annotation_counts[a] < train_annotation_counts[b] =>
                RatLt(per_cls_weights[b], per_cls_weights[a])

\* C4 (Imbalance Reweighter monotonicity), amended: of two classes the one
\* with the smaller count never has the smaller weight, and classes of
\* equal counts have equal weights.
C4_WeightsNonIncreasing ==
    rw_pc = "done" =>
        \A a, b \in DOMAIN train_annotation_counts :
            /\ train_annotation_counts[a] < train_annotation_counts[b] =>
                   RatGe(per_cls_weights[a], per_cls_weights[b])
            /\ train_annotation_counts[a] = train_annotation_counts[b] =>
                   per_cls_weights[a] = per_cls_weights[b]

\* C4 witness: weights were computed for three classes of three different
\* counts, the weights of the two larger counts being rounded to the same
\* number.
C4_Witness ==
    /\ rw_pc = "done" /\ Len(train_annotation_counts) = 3
    /\ train_annotation_counts[1] < train_annotation_counts[2]
    /\ train_annotation_counts[2] < train_annotation_counts[3]
    /\ RatLt(per_cls_weights[2], per_cls_weights[1])
    /\ per_cls_weights[2] = per_cls_weights[3]

\* The exact sum of the weights.
WeightSum == RatSum(per_cls_weights, 1, Len(per_cls_weights))

\* C5 (Imbalance Reweighter normalisation), as claimed: the weights sum to
\* the number of classes, the length of the class count vector.
C5_WeightsSum ==
    rw_pc = "done" =>
        /\ Len(per_cls_weights) = Len(train_annotation_counts)
        /\ WeightSum = <<Len(train_annotation_counts), 1>>

\* The roundings between the raw weights and the sum of the final weights:
\* n - 1 additions in np.sum, a division, a multiplication, and the
\* conversion to float32; each is off by a factor within 1 -+ 2^-bits.
SumLow(n) ==
    RatMul(<<n, 1>>,
        RatDiv(RatMul(RatPow(RatSub(One, <<1, Pow(2, DoubleBits)>>), 2),
                      RatSub(One, <<1, Pow(2, SingleBits)>>)),
               RatPow(RatAdd(One, <<1, Pow(2, DoubleBits)>>), n - 1)))

SumHigh(n) ==
    RatMul(<<n, 1>>,
        RatDiv(RatMul(RatPow(RatAdd(One, <<1, Pow(2, DoubleBits)>>), 2),
                      RatAdd(One, <<1, Pow(2, SingleBits)>>)),
               RatPow(RatSub(One, <<1, Pow(2, DoubleBits)>>), n - 1)))

\* C5 (Imbalance Reweighter normalisation), amended: there is one weight
\* per class and the weights sum to the number of classes up to the
\* roundings of the computation.
C5_WeightsSumRounded ==
    rw_pc = "done" =>
        /\ Len(per_cls_weights) = Len(train_annotation_counts)
        /\ RatGe(WeightSum, SumLow(Len(train_annotation_counts)))
        /\ RatGe(SumHigh(Len(train_annotation_counts)), WeightSum)

\* C5 witness: weights of an imbalanced count vector of more than one class
\* whose sum is not the number of classes.
C5_Witness ==
    /\ rw_pc = "done" /\ Len(train_annotation_counts) >= 2
    /\ train_annotation_counts[1] # train_annotation_counts[2]
    /\ WeightSum # <<Len(train_annotation_counts), 1>>

(* ---------------------- Centroid Calibrator ---------------------------- *)
\* The classes of configuration cfg, len(class_indices[cfg]) of them.
ClassesOf(cfg) == 0 .. (Cardinality(DOMAIN class_indices[cfg]) - 1)

\* The labeled training sets of configuration cfg: <<label, feature>> pairs.
CalFeats == [Dims -> {0, 1}]
TrainSets(cfg) ==
    UNION {[1 .. n -> ClassesOf(cfg) \X CalFeats] : n \in 1 .. MaxTrain}

\* torch.zeros(len(class_indices[self.args.class_indices]), self.net.feature_dim)
ZeroCentroids(cfg) == [c \in ClassesOf(cfg) |-> [j \in Dims |-> Zero]]

\* Lines 121-123: centroids[label] += feats[i] for the examples of a batch.
RECURSIVE Accumulate(_, _)
Accumulate(cents, batch) ==
    IF batch = <<>> THEN cents
    ELSE LET label == Head(batch)[1]
             f == Head(batch)[2]
         IN  Accumulate([cents EXCEPT ![label] =
                            [j \in Dims |-> RatAdd(cents[label][j], <<f[j], 1>>)]],
                        Tail(batch))

\* loader.dataset.class_counts_cal(): the classes that occur, ascending, and
\* the number of examples of each.
RECURSIVE Ascending(_)
Ascending(S) ==
    IF S = {} THEN <<>> ELSE <<Min(S)>> \o Ascending(S \ {Min(S)})

class_counts_cal(data) ==
    LET uni == Ascending({data[i][1] : i \in DOMAIN data})
    IN  <<uni, [k \in DOMAIN uni |->
                  Cardinality({i \in DOMAIN data : data[i][1] = uni[k]})]>>

DivideByCounts_total(cents, counts) ==
    [c \in DOMAIN cents |->
        [j \in Dims |-> RatDiv(cents[c][j], <<IntSum(counts, 1, Len(counts)), 1>>)]]

\* centroids /= torch.tensor(loader_class_counts).float().unsqueeze(1): the
\* divisor has one row per entry of counts, and broadcasts over the rows of
\* centroids when it has exactly one.  It is applied when Broadcastable.
DivideByCounts(cents, counts) ==
    [c \in DOMAIN cents |->
        [j \in Dims |->
            RatDiv(cents[c][j],
                   <<IF Len(counts) = 1 THEN counts[1] ELSE counts[c + 1], 1>>)]]

\* An in-place division keeps the shape of centroids.
Broadcastable(cents, counts) ==
    Len(counts) = Cardinality(DOMAIN cents) \/ Len(counts) = 1

CalInit ==
    /\ cal_pc = "loop"
    /\ args_class_indices \in DOMAIN class_indices
    /\ trainset \in TrainSets(args_class_indices)
    /\ cal_batch = 0
    /\ centroids = ZeroCentroids(args_class_indices)
    /\ GateIdle /\ EmaIdle /\ FmIdle /\ RwIdle /\ T1Idle /\ OrchIdle

\* One iteration of the loop of centroids_cal over the loader's batches.
centroids_batch ==
    /\ cal_pc = "loop"
    /\ LET batches == Chunk(trainset, batch_size)
       IN  /\ centroids' = Accumulate(centroids, batches[cal_batch + 1])
           /\ cal_batch' = cal_batch + 1
           /\ cal_pc' = IF cal_batch + 1 = Len(batches) THEN "divide" ELSE "loop"
    /\ UNCHANGED <<args_class_indices, trainset>>
    /\ UNCHANGED <<gateVars, emaVars, fmVars, rwVars, t1Vars, orchVars>>

\* Lines 125-130 of centroids_cal.
centroids_divide ==
    /\ cal_pc = "divide"
    /\ LET counts == class_counts_cal(trainset)[2]
       IN  IF Broadcastable(centroids, counts)
           THEN /\ centroids' = DivideByCounts(centroids, counts)
                /\ cal_pc' = "done"
           ELSE /\ cal_pc' = "RuntimeError"
                /\ UNCHANGED centroids
    /\ UNCHANGED <<args_class_indices, trainset, cal_batch>>
    /\ UNCHANGED <<gateVars, emaVars, fmVars, rwVars, t1Vars, orchVars>>

CalNext == centroids_batch \/ centroids_divide

SpecCentroid == CalInit /\ [][CalNext]_vars

\* The examples of class c and the mean of their features in dimension j.
ExamplesOf(c) == {i \in DOMAIN trainset : trainset[i][1] = c}

RECURSIVE SumOver(_, _)
SumOver(S, j) ==
    IF S = {} THEN 0
    ELSE LET i == CHOOSE x \in S : TRUE IN trainset[i][2][j] + SumOver(S \ {i}, j)

MeanOf(c, j) == Rat(SumOver(ExamplesOf(c), j), Cardinality(ExamplesOf(c)))

\* One example per class, the feature of class c being the c-th basis vector.
OneHotSet ==
    /\ Cardinality(DOMAIN class_indices[args_class_indices]) = FeatDim
    /\ Len(trainset) = FeatDim
    /\ \A c \in ClassesOf(args_class_indices) : Cardinality(ExamplesOf(c)) = 1
    /\ \A i \in DOMAIN trainset :
           trainset[i][2] = [j \in Dims |-> IF j = trainset[i][1] THEN 1 ELSE 0]

\* C6 (Centroid Calibrator): the table centroids_cal returns has one row
\* per class, the row of every class with examples is the mean of their
\* feature vectors, and for a one-hot training set it is the identity.
C6_CentroidsAreMeans ==
    cal_pc = "done" =>
        /\ DOMAIN centroids = ClassesOf(args_class_indices)
        /\ \A c \in ClassesOf(args_class_indices) :
               ExamplesOf(c) # {} =>
                   \A j \in Dims : centroids[c][j] = MeanOf(c, j)
        /\ OneHotSet => centroids = IdentityCentroids

\* C6 witness: centroids of a training set of several batches in which a
\* class has several examples and a mean that is no integer.
C6_Witness ==
    /\ cal_pc = "done" /\ cal_batch >= 2
    /\ \E c \in ClassesOf(args_class_indices), j \in Dims :
           Cardinality(ExamplesOf(c)) >= 2 /\ centroids[c][j][2] # 1

(* ------------------------ PlainStage1.train ---------------------------- *)
\* The weights are named by the epoch that trained them, the weights before
\* the first epoch by InitialWeights.
InitialWeights == 0 - 1

\* self.net.update_best(): the current weights, those of epoch e, become
\* the best weights.
net_update_best(e) == e

\* self.net.save(path): the best weights are written.
net_save(bw) == bw

T1Init ==
    /\ t1_pc = "epoch"
    /\ num_epochs \in 1 .. MaxEpochs
    /\ epoch = 0 /\ best_f1 = 0
    /\ val_f1s = <<>> /\ best_calls = {} /\ best_weights = InitialWeights
    /\ saved = <<>>
    /\ GateIdle /\ EmaIdle /\ FmIdle /\ RwIdle /\ CalIdle /\ OrchIdle

\* One iteration of the loop of PlainStage1.train (lines 178-187); the
\* validation F1 is f / MaxF1.  best_f1 is assigned nowhere in the loop.
train_epoch_val ==
    /\ t1_pc = "epoch"
    /\ \E f \in 0 .. MaxF1 :
         /\ val_f1s' = Append(val_f1s, f)
         /\ IF f > best_f1
            THEN /\ best_calls' = best_calls \cup {epoch}
                 /\ best_weights' = net_update_best(epoch)
            ELSE UNCHANGED <<best_calls, best_weights>>
    /\ epoch' = epoch + 1
    /\ t1_pc' = IF epoch + 1 = num_epochs THEN "save" ELSE "epoch"
    /\ UNCHANGED <<num_epochs, best_f1, saved>>
    /\ UNCHANGED <<gateVars, emaVars, fmVars, rwVars, calVars, orchVars>>

\* self.save_model() after the loop (line 189).
save_model ==
    /\ t1_pc = "save"
    /\ saved' = <<net_save(best_weights)>>
    /\ t1_pc' = "done"
    /\ UNCHANGED <<num_epochs, epoch, best_f1, val_f1s, best_calls, best_weights>>
    /\ UNCHANGED <<gateVars, emaVars, fmVars, rwVars, calVars, orchVars>>

T1Next == train_epoch_val \/ save_model

SpecTrain1 == T1Init /\ [][T1Next]_vars

\* C7 (Stage-1 best-model tracking), as claimed: update_best() is called
\* for an epoch only if its validation F1 exceeds that of every earlier
\* epoch, and the snapshot save_model() writes is of an epoch of maximal
\* validation F1.
C7_BestTracked ==
    /\ \A e \in best_calls :
           \A j \in 1 .. e : val_f1s[e + 1] > val_f1s[j]
    /\ (t1_pc = "done" /\ saved # <<>> /\ saved # <<InitialWeights>>) =>
           \A j \in 1 .. Len(val_f1s) : val_f1s[saved[1] + 1] >= val_f1s[j]

(* --------------------- claims on the FixMatch mask ---------------------- *)
\* Some class probability of the row is above t / is at least t.
SomeAbove(row, t) ==
    \E c \in Classes : RatLt(t, Rat(ExpOf(row, c), ExpSum(row)))

SomeAtLeast(row, t) ==
    \E c \in Classes : RatGe(Rat(ExpOf(row, c), ExpSum(row)), t)

\* C11 (FixMatch mask selection), as claimed: the mask selects exactly the
\* unlabeled examples whose weak-view max pseudo-probability exceeds
\* fixmatch_t; an example at the threshold or below it has mask 0.
C11_MaskExceeds ==
    opt_steps >= 1 =>
        \A i \in 1 .. Len(logits_u_w) :
            mask[i] = IF SomeAbove(logits_u_w[i], fixmatch_t) THEN 1 ELSE 0

\* C11 (FixMatch mask selection), amended: the mask selects exactly the
\* unlabeled examples whose weak-view max pseudo-probability is at least
\* fixmatch_t; an example exactly at the threshold has mask 1.
C11_MaskAtLeast ==
    opt_steps >= 1 =>
        /\ Len(mask) = Len(logits_u_w)
        /\ \A i \in 1 .. Len(logits_u_w) :
               mask[i] = IF SomeAtLeast(logits_u_w[i], fixmatch_t) THEN 1 ELSE 0

\* C11 witness: a batch with one example exactly at the threshold, selected,
\* and one below it, not selected.
C11_Witness ==
    /\ opt_steps = 1 /\ Len(logits_u_w) = 2
    /\ mask[1] = 1 /\ ~SomeAbove(logits_u_w[1], fixmatch_t)
    /\ mask[2] = 0 /\ fixmatch_t # One

(* ------------------ claims on the teachers' cadence -------------------- *)
\* The student weights of optimizer steps 1 .. k, in order.
StepsUpTo(k) == [j \in 1 .. k |-> j]

\* C12 (teacher update cadence): with EMA enabled each teacher has averaged,
\* after k completed steps, exactly the student weights left by optimizer
\* steps 1 .. k, one update per step and each after its step; the forward
\* pass of the evaluation reads the teachers and leaves them as they are.
C12_TeacherCadence ==
    [][/\ (args_ema /\ fm_pc # "idle") =>
             /\ feature_ema = StepsUpTo(batch_idx)
             /\ classifier_ema = StepsUpTo(batch_idx)
             /\ feature_ema' = StepsUpTo(batch_idx')
             /\ classifier_ema' = StepsUpTo(batch_idx')
             /\ opt_steps' = batch_idx'
       /\ (args_ema /\ validation_forward) =>
             /\ UNCHANGED <<feature_ema, classifier_ema>>
             /\ eval_reads' = [source |-> "ema", feature |-> feature_ema,
                               classifier |-> classifier_ema]]_vars

\* C12 witness: an epoch of three steps with EMA enabled was evaluated
\* through teachers that averaged the weights of steps 1, 2 and 3.
C12_Witness ==
    /\ fm_pc = "evaluated" /\ args_ema /\ opt_steps = 3
    /\ feature_ema = <<1, 2, 3>> /\ classifier_ema = <<1, 2, 3>>
    /\ eval_reads.source = "ema" /\ eval_reads.feature = <<1, 2, 3>>

(* ------------------------ MemoryStage1.deploy --------------------------- *)
ToFile_columns(table) ==
    LET rows == Cardinality(DOMAIN table)
    IN  [k \in 1 .. (rows * FeatDim) |-> table[(k - 1) % rows][(k - 1) \div rows]]

\* ndarray.tofile: the values of the table, row after row.
ToFile(table) ==
    [k \in 1 .. (Cardinality(DOMAIN table) * FeatDim) |->
        table[(k - 1) \div FeatDim][(k - 1) % FeatDim]]

\* np.fromfile(centroids_path, dtype=np.float32).reshape(-1, feature_dim)
FromFile(values) ==
    [c \in 0 .. ((Len(values) \div FeatDim) - 1) |->
        [j \in Dims |-> values[c * FeatDim + j + 1]]]

\* A MemoryStage1 with its training loader, before any deploy; centroids is
\* None and no centroid file exists at the weights path.
DpInit ==
    /\ dp_pc = "ready" /\ centroid_file = <<>> /\ dp_centroids = <<>>
    /\ deploy_calls = 0 /\ cal_runs = 0 /\ cal_returns = 0 /\ loads = 0
    /\ saved_table = <<>>
    /\ cal_pc = "idle"
    /\ args_class_indices \in DOMAIN class_indices
    /\ trainset \in TrainSets(args_class_indices)
    /\ cal_batch = 0
    /\ centroids = ZeroCentroids(args_class_indices)
    /\ GateIdle /\ EmaIdle /\ FmIdle /\ RwIdle /\ T1Idle /\ LdIdle /\ CkIdle
    /\ T2Idle

\* deploy up to its call of centroids_cal (lines 134-141).  A deploy that
\* follows one that raised belongs to a new run of the program.
deploy ==
    /\ dp_pc = "ready" \/ (dp_pc = "cal" /\ cal_pc = "RuntimeError")
    /\ deploy_calls < MaxCalls
    /\ deploy_calls' = deploy_calls + 1
    /\ IF centroid_file # <<>>
       THEN /\ dp_centroids' = <<FromFile(centroid_file[1])>>
            /\ loads' = loads + 1
            /\ dp_pc' = "epoch"
            /\ UNCHANGED <<cal_runs, calVars>>
       ELSE /\ cal_runs' = cal_runs + 1
            /\ cal_pc' = "loop"
            /\ cal_batch' = 0
            /\ centroids' = ZeroCentroids(args_class_indices)
            /\ dp_pc' = "cal"
            /\ dp_centroids' = IF dp_pc = "cal" THEN <<>> ELSE dp_centroids
            /\ UNCHANGED <<loads, args_class_indices, trainset>>
    /\ UNCHANGED <<centroid_file, cal_returns, saved_table>>
    /\ UNCHANGED <<gateVars, emaVars, fmVars, rwVars, t1Vars>>
    /\ UNCHANGED dpOthers

\* centroids_cal has returned: lines 141-143.
deploy_save ==
    /\ dp_pc = "cal" /\ cal_pc = "done"
    /\ cal_returns' = cal_returns + 1
    /\ dp_centroids' = <<centroids>>
    /\ saved_table' = <<centroids>>
    /\ centroid_file' = <<ToFile(centroids)>>
    /\ cal_pc' = "idle"
    /\ dp_pc' = "epoch"
    /\ UNCHANGED <<deploy_calls, cal_runs, loads>>
    /\ UNCHANGED <<args_class_indices, trainset, cal_batch, centroids>>
    /\ UNCHANGED <<gateVars, emaVars, fmVars, rwVars, t1Vars>>
    /\ UNCHANGED dpOthers

\* The call of deploy_epoch (line 146) and the rest of deploy.
deploy_evaluate ==
    /\ dp_pc = "epoch"
    /\ dp_pc' = "ready"
    /\ UNCHANGED <<centroid_file, dp_centroids, deploy_calls, cal_runs,
                   cal_returns, loads, saved_table>>
    /\ UNCHANGED <<gateVars, emaVars, fmVars, rwVars, calVars, t1Vars>>
    /\ UNCHANGED dpOthers

DpNext ==
    \/ deploy
    \/ (dp_pc = "cal" /\ centroids_batch)
    \/ (dp_pc = "cal" /\ centroids_divide)
    \/ deploy_save
    \/ deploy_evaluate

SpecDeploy == DpInit /\ [][DpNext]_vars

SomeClassAbsent ==
    cal_pc # "idle" /\ \E c \in ClassesOf(args_class_indices) : ExamplesOf(c) = {}

\* C14 (absent-class centroid), as claimed: with some class absent from the
\* labeled loader centroids_cal raises nothing, and once it has returned
\* the rows of the absent classes are all zero and the rows of the present
\* classes are the means of their features.
C14_AbsentClassZero ==
    SomeClassAbsent =>
        /\ cal_pc # "RuntimeError"
        /\ cal_pc = "done" =>
               \A c \in ClassesOf(args_class_indices), j \in Dims :
                   centroids[c][j] =
                       IF ExamplesOf(c) = {} THEN Zero ELSE MeanOf(c, j)

(* --------------------------- CCT.load_data ------------------------------ *)
\* self.class_indices of the dataset object.
DatasetIndices == class_indices["pair"]

\* Category ids of annotation files: keys of the mapping, the two excluded
\* ids, and an id the mapping does not have.
CategoryIds == DOMAIN DatasetIndices \cup {30, 33} \cup {9}

\* An annotation entry: its position in the file stands for the image id,
\* and bbox is <<>> when the entry has no 'bbox' key.
Entries(k) ==
    [image_id : {k}, category_id : CategoryIds, bbox : {<<>>, <<k>>}]

AnnotationFiles ==
    UNION {{f \in [1 .. n -> UNION {Entries(k) : k \in 1 .. n}] :
               \A k \in 1 .. n : f[k].image_id = k} : n \in 0 .. MaxAnn}

Excluded_one(c) == c = 30

\* entry['category_id'] != 30 and entry['category_id'] != 33, negated.
Excluded(c) == c = 30 \/ c = 33

\* The list comprehension of load_data.
RECURSIVE FilterAnnotations(_)
FilterAnnotations(es) ==
    IF es = <<>> THEN <<>>
    ELSE IF Excluded(Head(es).category_id) THEN FilterAnnotations(Tail(es))
    ELSE <<Head(es)>> \o FilterAnnotations(Tail(es))

\* CCT_CROP takes an entry only if 'bbox' in entry; CCT takes every entry.
Taken(kind, e) == kind = "CCT" \/ e.bbox # <<>>

LdInit ==
    /\ ld_pc = "filter"
    /\ ld_kind \in {"CCT", "CCT_CROP"}
    /\ ann_js \in AnnotationFiles
    /\ annotations = <<>> /\ ld_i = 0
    /\ self_data = <<>> /\ self_labels = <<>> /\ self_bbox = <<>>
    /\ GateIdle /\ EmaIdle /\ FmIdle /\ RwIdle /\ CalIdle /\ T1Idle /\ DpIdle
    /\ CkIdle /\ T2Idle

\* Lines 17-23 (CCT) and 97-103 (CCT_CROP).
load_filter ==
    /\ ld_pc = "filter"
    /\ annotations' = FilterAnnotations(ann_js)
    /\ ld_pc' = IF FilterAnnotations(ann_js) = <<>> THEN "done" ELSE "loop"
    /\ UNCHANGED <<ld_kind, ann_js, ld_i, self_data, self_labels, self_bbox>>
    /\ UNCHANGED <<gateVars, emaVars, fmVars, rwVars, calVars, t1Vars>>
    /\ UNCHANGED ldOthers

\* One iteration of the for loop: lines 25-28 (CCT) and 104-109 (CCT_CROP).
load_entry ==
    /\ ld_pc = "loop"
    /\ LET e == annotations[ld_i + 1]
           mapped == e.category_id \in DOMAIN DatasetIndices
           last == ld_i + 1 = Len(annotations)
       IN  IF ~Taken(ld_kind, e)
           THEN /\ ld_pc' = IF last THEN "done" ELSE "loop"
                /\ UNCHANGED <<self_data, self_labels, self_bbox>>
           ELSE /\ self_data' = Append(self_data, e.image_id)
                /\ IF mapped
                   THEN /\ self_labels' =
                             Append(self_labels, DatasetIndices[e.category_id])
                        /\ self_bbox' = IF ld_kind = "CCT_CROP"
                                        THEN Append(self_bbox, e.bbox)
                                        ELSE self_bbox
                        /\ ld_pc' = IF last THEN "done" ELSE "loop"
                   ELSE /\ ld_pc' = "AssertionError"
                        /\ UNCHANGED <<self_labels, self_bbox>>
    /\ ld_i' = ld_i + 1
    /\ UNCHANGED <<ld_kind, ann_js, annotations>>
    /\ UNCHANGED <<gateVars, emaVars, fmVars, rwVars, calVars, t1Vars>>
    /\ UNCHANGED ldOthers

LdNext == load_filter \/ load_entry

SpecLoad == LdInit /\ [][LdNext]_vars

\* Positions of the file whose category id is neither 30 nor 33 nor a key
\* of the mapping, and those among them that the loader takes.
Unmapped ==
    {k \in DOMAIN ann_js :
        /\ ann_js[k].category_id \notin {30, 33}
        /\ ann_js[k].category_id \notin DOMAIN DatasetIndices}

UnmappedTaken == {k \in Unmapped : Taken(ld_kind, ann_js[k])}

\* Positions of the file that a successful load stores, in order.
RECURSIVE Ascend(_)
Ascend(S) ==
    IF S = {} THEN <<>>
    ELSE LET m == CHOOSE x \in S : \A y \in S : x <= y
         IN  <<m>> \o Ascend(S \ {m})

Stored ==
    Ascend({k \in DOMAIN ann_js :
               /\ ann_js[k].category_id \notin {30, 33}
               /\ Taken(ld_kind, ann_js[k])})

\* What a finished load has stored: labels are values of the mapping, and
\* data, labels (and bbox for CCT_CROP) are aligned.
LoadedAligned ==
    /\ Len(self_data) = Len(Stored) /\ Len(self_labels) = Len(Stored)
    /\ Len(self_bbox) = IF ld_kind = "CCT_CROP" THEN Len(Stored) ELSE 0
    /\ \A i \in 1 .. Len(Stored) :
           /\ self_data[i] = ann_js[Stored[i]].image_id
           /\ self_labels[i] = DatasetIndices[ann_js[Stored[i]].category_id]
           /\ self_labels[i] \in {DatasetIndices[c] : c \in DOMAIN DatasetIndices}
           /\ ld_kind = "CCT_CROP" => self_bbox[i] = ann_js[Stored[i]].bbox

\* C15 (class-index mapping check at data load), as claimed: the load fails
\* exactly when the file has an annotation whose category id is neither 30
\* nor 33 nor a key of the mapping, at the first such annotation; a
\* successful load stores aligned data and labels of the mapping.
C15_FailFast ==
    /\ ld_pc = "done" => (Unmapped = {} /\ LoadedAligned)
    /\ ld_pc = "AssertionError" =>
           /\ Unmapped # {}
           /\ annotations[ld_i] = ann_js[CHOOSE k \in Unmapped : \A m \in Unmapped : k <= m]

\* C15 (class-index mapping check at data load), amended: the load fails
\* exactly when an annotation that the loader takes (for CCT_CROP: one with
\* a bbox) has a category id that is neither 30 nor 33 nor a key of the
\* mapping, at the first such annotation; annotations of category 30 or 33
\* never make it fail; a successful load stores aligned data and labels.
C15_FailFastTaken ==
    /\ ld_pc = "done" => (UnmappedTaken = {} /\ LoadedAligned)
    /\ ld_pc = "AssertionError" =>
           /\ UnmappedTaken # {}
           /\ annotations[ld_i] =
                  ann_js[CHOOSE k \in UnmappedTaken : \A m \in UnmappedTaken : k <= m]
           /\ annotations[ld_i].category_id \notin {30, 33}
    /\ ld_pc = "loop" => \A i \in 1 .. ld_i :
           Taken(ld_kind, annotations[i]) =>
               annotations[i].category_id \in DOMAIN DatasetIndices

\* C15 witness: CCT_CROP loaded a file with an excluded annotation, a
\* mapped one with a bbox, and an unmapped one without a bbox.
C15_Witness ==
    /\ ld_pc = "done" /\ ld_kind = "CCT_CROP" /\ Len(ann_js) = 3
    /\ Unmapped # {} /\ Len(self_data) = 1 /\ Len(annotations) = 2

(* ------------------------ EMA checkpoint -------------------------------- *)
\* State dicts of a teacher network: its parameter names, under 'module.'
\* if the network is wrapped, with their weights.
TeacherStates(has_module) == [StateDictKeys(has_module) -> Weights]

\* <wrapped network>.module.state_dict(): the entries without the prefix.
ModuleStateDict(sd) ==
    [k \in {SubSeq(q, Len(ModulePrefix) + 1, Len(q)) : q \in DOMAIN sd} |->
        sd[ModulePrefix \o k]]

\* The ema_states dict of save_ema_model (lines 228-233), or the exception
\* raised while it is built: <teacher>.ema.module exists only for a wrapped
\* teacher.
EmaStates(f, c) ==
    LET fe == IF HasModule(f) THEN <<ModuleStateDict(f)>>
              ELSE IF HasModule(f) THEN <<ModuleStateDict(f)>>
              ELSE <<>>
        ce == IF HasModule(c) THEN <<c>>
              ELSE IF HasModule(c) THEN <<ModuleStateDict(c)>>
              ELSE <<>>
    IN  IF fe = <<>> \/ ce = <<>>
        THEN [raised |-> "AttributeError", states |-> <<>>]
        ELSE [raised |-> "none",
              states |-> <<[feature_ema |-> fe[1], classifier_ema |-> ce[1]]>>]

\* load_state_dict (strict): the keys must be the network's own.
LoadRaises(net, sd) == DOMAIN sd # DOMAIN net

\* A training run whose teachers hold some weights, and the freshly built
\* teachers of a later set_eval: of the same architecture, or of another
\* wrapping.
CkInit ==
    /\ ck_pc = "train"
    /\ \E fm \in BOOLEAN, cm \in BOOLEAN :
          /\ train_feature_ema \in TeacherStates(fm)
          /\ train_classifier_ema \in TeacherStates(cm)
          /\ \E efm \in BOOLEAN, ecm \in BOOLEAN :
                /\ eval_feature_ema = [k \in StateDictKeys(efm) |-> Zero]
                /\ eval_classifier_ema = [k \in StateDictKeys(ecm) |-> Zero]
    /\ checkpoint = <<>>
    /\ GateIdle /\ EmaIdle /\ FmIdle /\ RwIdle /\ CalIdle /\ T1Idle
    /\ DpIdle /\ LdIdle /\ T2Idle

\* save_ema_model (lines 224-235).
save_ema_model ==
    /\ ck_pc = "train"
    /\ LET r == EmaStates(train_feature_ema, train_classifier_ema)
       IN  IF r.raised = "none"
           THEN /\ checkpoint' = r.states
                /\ ck_pc' = "saved"
           ELSE /\ ck_pc' = r.raised
                /\ UNCHANGED checkpoint
    /\ UNCHANGED <<train_feature_ema, train_classifier_ema, eval_feature_ema,
                   eval_classifier_ema>>
    /\ UNCHANGED <<gateVars, emaVars, fmVars, rwVars, calVars, t1Vars>>
    /\ UNCHANGED ckOthers

\* The args.ema branch of set_eval (lines 66-74).
set_eval ==
    /\ ck_pc = "saved"
    /\ LET ck == checkpoint[1]
       IN  IF LoadRaises(eval_feature_ema, ck.feature_ema)
           THEN /\ ck_pc' = "RuntimeError"
                /\ UNCHANGED <<eval_feature_ema, eval_classifier_ema>>
           ELSE /\ eval_feature_ema' = ck.feature_ema
                /\ IF LoadRaises(eval_classifier_ema, ck.classifier_ema)
                   THEN /\ ck_pc' = "RuntimeError"
                        /\ UNCHANGED eval_classifier_ema
                   ELSE /\ eval_classifier_ema' = ck.classifier_ema
                        /\ ck_pc' = "loaded"
    /\ UNCHANGED <<train_feature_ema, train_classifier_ema, checkpoint>>
    /\ UNCHANGED <<gateVars, emaVars, fmVars, rwVars, calVars, t1Vars>>
    /\ UNCHANGED ckOthers

CkNext == save_ema_model \/ set_eval

SpecCheckpoint == CkInit /\ [][CkNext]_vars

\* The set_eval teachers have the architecture of the training teachers.
SameArchitecture ==
    /\ DOMAIN eval_feature_ema = DOMAIN train_feature_ema
    /\ DOMAIN eval_classifier_ema = DOMAIN train_classifier_ema

\* C16 (EMA checkpoint round trip), as claimed: saving raises nothing for
\* teachers with or without a 'module' wrapper; loading the checkpoint into
\* teachers of the same architecture raises nothing and restores both
\* teachers' weights exactly; a load into teachers of other keys raises.
C16_RoundTrip ==
    /\ ck_pc # "AttributeError"
    /\ SameArchitecture =>
           /\ ck_pc # "RuntimeError"
           /\ ck_pc = "loaded" =>
                  /\ eval_feature_ema = train_feature_ema
                  /\ eval_classifier_ema = train_classifier_ema
    /\ (ck_pc # "idle" /\ ~SameArchitecture) => ck_pc # "loaded"

(* ------------- EMAFixMatchStage2.train / LDAMSemiStage2.train ----------- *)
\* The weights of self.net are named by the epoch that produced them, the
\* weights get_model loaded by InitialWeights.  Validation accuracies are
\* multiples of 1 / MaxAcc.
Algorithms == {"EMAFixMatchStage2", "LDAMSemiStage2"}

\* `if val_acc_mac > best_acc` of both train methods.
Improves_ge(val_acc_mac, best) == val_acc_mac >= best
Improves(val_acc_mac, best) == val_acc_mac > best

\* self.net.load_state_dict(copy.deepcopy(self.net.best_weights))
LoadBest_keep(current, best) == current
LoadBest(current, best) == best

\* A teacher as ModelEMA builds it from a sub-network: a deep copy, wrapped
\* in 'module' exactly if the sub-network is.
NewTeacher(has_module) == [k \in StateDictKeys(has_module) |-> Zero]

T2Init ==
    /\ t2_pc = "set_train"
    /\ t2_alg \in Algorithms
    /\ t2_args_ema \in (IF t2_alg = "EMAFixMatchStage2" THEN BOOLEAN ELSE {FALSE})
    /\ t2_feature_ema = <<>> /\ t2_classifier_ema = <<>> /\ t2_checkpoint = <<>>
    /\ ema_accesses = 0
    /\ t2_num_epochs \in 1 .. MaxEpochs
    /\ t2_epoch = 0 /\ best_acc = 0 /\ best_epoch = 0
    /\ val_accs = <<>> /\ t2_best_calls = {}
    /\ net_weights = InitialWeights /\ net_best_weights = InitialWeights
    /\ t2_saved = <<>>
    /\ pseudo_from = <<>> /\ ps_resets = 0 /\ loader_from = 0
    /\ GateIdle /\ EmaIdle /\ FmIdle /\ RwIdle /\ CalIdle /\ T1Idle
    /\ DpIdle /\ LdIdle /\ CkIdle

\* set_train.  EMAFixMatchStage2: the teachers are built only under
\* args.ema; whether get_model wraps the sub-networks is not decided here.
\* LDAMSemiStage2: the hard pseudo-labels are regenerated from the network
\* just built, then the train loader is rebuilt from them.
stage2_set_train ==
    /\ t2_pc = "set_train"
    /\ IF t2_alg = "EMAFixMatchStage2"
       THEN /\ IF t2_args_ema
               THEN \E f, c \in BOOLEAN :
                        /\ t2_feature_ema' = <<NewTeacher(f)>>
                        /\ t2_classifier_ema' = <<NewTeacher(c)>>
               ELSE UNCHANGED <<t2_feature_ema, t2_classifier_ema>>
            /\ UNCHANGED <<pseudo_from, ps_resets, loader_from>>
       ELSE /\ pseudo_from' = <<net_weights>>
            /\ ps_resets' = ps_resets + 1
            /\ loader_from' = ps_resets + 1
            /\ UNCHANGED <<t2_feature_ema, t2_classifier_ema>>
    /\ t2_pc' = "epoch"
    /\ UNCHANGED <<t2_alg, t2_args_ema, t2_checkpoint, ema_accesses, t2_num_epochs,
                   t2_epoch, best_acc, best_epoch, val_accs, t2_best_calls,
                   net_weights, net_best_weights, t2_saved>>
    /\ UNCHANGED <<gateVars, emaVars, fmVars, rwVars, calVars, t1Vars>>
    /\ UNCHANGED t2Others

\* The teacher reads of one call of save_ema_model: both attributes if the
\* first exists, else the one failed read.
SaveEmaReads == IF t2_feature_ema = <<>> THEN 1 ELSE 2

\* The outcome of save_ema_model() on the teachers of this run.
SaveEma ==
    IF t2_feature_ema = <<>> \/ t2_classifier_ema = <<>>
    THEN [raised |-> "AttributeError", states |-> <<>>]
    ELSE EmaStates(t2_feature_ema[1], t2_classifier_ema[1])

\* One iteration of the loop of train: train_epoch, evaluate, and the
\* update of the best model.  evaluate_forward and train_epoch use the
\* teachers only under args.ema.
stage2_epoch ==
    /\ t2_pc = "epoch"
    /\ \E val_acc_mac \in 0 .. MaxAcc :
         LET better == Improves(val_acc_mac, best_acc)
             saves == better /\ t2_alg = "EMAFixMatchStage2"
         IN  /\ net_weights' = t2_epoch
             /\ val_accs' = Append(val_accs, val_acc_mac)
             /\ IF better
                THEN /\ net_best_weights' = t2_epoch
                     /\ t2_best_calls' = t2_best_calls \cup {t2_epoch}
                     /\ best_acc' = val_acc_mac
                     /\ best_epoch' = t2_epoch
                ELSE UNCHANGED <<net_best_weights, t2_best_calls, best_acc, best_epoch>>
             /\ ema_accesses' = IF ema_accesses >= MaxEpochs * 4 THEN ema_accesses
                                ELSE ema_accesses + (IF t2_args_ema THEN 2 ELSE 0)
                                                  + (IF saves THEN SaveEmaReads ELSE 0)
             /\ IF saves /\ SaveEma.raised # "none"
                THEN /\ t2_pc' = SaveEma.raised
                     /\ UNCHANGED <<t2_checkpoint, t2_epoch>>
                ELSE /\ t2_checkpoint' = IF saves THEN SaveEma.states ELSE t2_checkpoint
                     /\ t2_epoch' = t2_epoch + 1
                     /\ t2_pc' = IF t2_epoch + 1 = t2_num_epochs THEN "save" ELSE "epoch"
    /\ UNCHANGED <<t2_alg, t2_args_ema, t2_feature_ema, t2_classifier_ema,
                   t2_num_epochs, t2_saved, pseudo_from, ps_resets, loader_from>>
    /\ UNCHANGED <<gateVars, emaVars, fmVars, rwVars, calVars, t1Vars>>
    /\ UNCHANGED t2Others

\* self.save_model() after the loop; the last statement of
\* EMAFixMatchStage2.train.
stage2_save_model ==
    /\ t2_pc = "save"
    /\ t2_saved' = <<net_save(net_best_weights)>>
    /\ t2_pc' = IF t2_alg = "LDAMSemiStage2" THEN "revert" ELSE "done"
    /\ UNCHANGED <<t2_alg, t2_args_ema, t2_feature_ema, t2_classifier_ema,
                   t2_checkpoint, ema_accesses, t2_num_epochs, t2_epoch, best_acc,
                   best_epoch, val_accs, t2_best_calls, net_weights,
                   net_best_weights, pseudo_from, ps_resets, loader_from>>
    /\ UNCHANGED <<gateVars, emaVars, fmVars, rwVars, calVars, t1Vars>>
    /\ UNCHANGED t2Others

\* LDAMSemiStage2.train, line 110: revert to the best weights.
stage2_load_best ==
    /\ t2_pc = "revert"
    /\ net_weights' = LoadBest(net_weights, net_best_weights)
    /\ t2_pc' = "reset"
    /\ UNCHANGED <<t2_alg, t2_args_ema, t2_feature_ema, t2_classifier_ema,
                   t2_checkpoint, ema_accesses, t2_num_epochs, t2_epoch, best_acc,
                   best_epoch, val_accs, t2_best_calls, net_best_weights, t2_saved,
                   pseudo_from, ps_resets, loader_from>>
    /\ UNCHANGED <<gateVars, emaVars, fmVars, rwVars, calVars, t1Vars>>
    /\ UNCHANGED t2Others

\* LDAMSemiStage2.train, lines 112-114: the final pseudo_label_reset; the
\* train loader is not rebuilt.
stage2_pseudo_label_reset ==
    /\ t2_pc = "reset"
    /\ pseudo_from' = <<net_weights>>
    /\ ps_resets' = ps_resets + 1
    /\ t2_pc' = "done"
    /\ UNCHANGED <<t2_alg, t2_args_ema, t2_feature_ema, t2_classifier_ema,
                   t2_checkpoint, ema_accesses, t2_num_epochs, t2_epoch, best_acc,
                   best_epoch, val_accs, t2_best_calls, net_weights,
                   net_best_weights, t2_saved, loader_from>>
    /\ UNCHANGED <<gateVars, emaVars, fmVars, rwVars, calVars, t1Vars>>
    /\ UNCHANGED t2Others

T2Next ==
    \/ stage2_set_train
    \/ stage2_epoch
    \/ stage2_save_model
    \/ stage2_load_best
    \/ stage2_pseudo_label_reset

SpecTrain2 == T2Init /\ [][T2Next]_vars

\* The largest accuracy seen so far, or 0.
MaxAccSeen == Max({0} \cup {val_accs[i] : i \in 1 .. Len(val_accs)})

\* The epochs (from 0) whose accuracy exceeds 0 and every earlier accuracy.
RecordEpochs ==
    {e \in 0 .. Len(val_accs) - 1 :
        /\ val_accs[e + 1] > 0
        /\ \A j \in 0 .. e - 1 : val_accs[e + 1] > val_accs[j + 1]}

\* The train method has left its loop.
LoopOver == t2_pc \in {"save", "revert", "reset", "done"}

\* C17 (stage-2 best-model tracking): in both train methods best_acc never
\* decreases and is the maximum accuracy seen so far (or 0), update_best()
\* ran exactly in the epochs whose accuracy exceeds all earlier ones (and
\* 0), and after the loop best_epoch is the first epoch attaining the
\* maximum, or 0 without any update_best() call if no accuracy exceeds 0.
C17_BestTracking ==
    [][/\ best_acc' >= best_acc
       /\ best_acc' = MaxAccSeen'
       /\ t2_best_calls' = RecordEpochs'
       /\ LoopOver' =>
              /\ Len(val_accs') = t2_num_epochs'
              /\ IF MaxAccSeen' = 0
                 THEN best_epoch' = 0 /\ t2_best_calls' = {}
                 ELSE /\ val_accs'[best_epoch' + 1] = MaxAccSeen'
                      /\ \A j \in 0 .. best_epoch' - 1 :
                             val_accs'[j + 1] < MaxAccSeen']_vars

\* C17 witness: a run of either algorithm over three epochs with a tie for
\* the maximum after the first epoch has finished.
C17_Witness ==
    /\ t2_pc = "done" /\ val_accs = <<1, 2, 2>>
    /\ best_epoch = 1 /\ t2_best_calls = {0, 1} /\ best_acc = 2

\* C18 (pseudo-label regeneration ordering in LDAMSemiStage2): set_train
\* regenerates the hard pseudo-labels and rebuilds the train loader before
\* any epoch; the epochs never regenerate them; after the last epoch the
\* model is saved, then reverted to the best weights, and only then are
\* the pseudo-labels reset, from the best weights.
C18_ResetOrdering ==
    t2_alg = "LDAMSemiStage2" =>
        /\ t2_pc = "set_train" =>
               /\ t2_epoch = 0 /\ val_accs = <<>> /\ ps_resets = 0
               /\ net_weights = InitialWeights
        /\ t2_pc \in {"epoch", "save", "revert", "reset"} =>
               /\ ps_resets = 1 /\ loader_from = 1
               /\ pseudo_from = <<InitialWeights>>
        /\ t2_pc \in {"epoch", "save"} => t2_saved = <<>>
        /\ t2_pc = "revert" =>
               /\ t2_saved # <<>> /\ net_weights = t2_num_epochs - 1
        /\ t2_pc = "reset" =>
               /\ t2_saved # <<>> /\ net_weights = net_best_weights
        /\ t2_pc = "done" =>
               /\ t2_saved # <<>> /\ ps_resets = 2
               /\ net_weights = net_best_weights
               /\ pseudo_from = <<net_best_weights>>

\* C18 witness: a finished LDAMSemiStage2 run whose best epoch is not the
\* last one.
C18_Witness ==
    /\ t2_alg = "LDAMSemiStage2" /\ t2_pc = "done"
    /\ val_accs = <<2, 1>> /\ pseudo_from = <<0>> /\ t2_saved = <<0>>

\* C20 (EMA-disabled training is self-contained), as claimed: with
\* args.ema false no teacher is built, train raises nothing and reaches
\* save_model() after all epochs, and no teacher attribute or EMA
\* checkpoint is read or written.
C20_NoEmaSelfContained ==
    (t2_alg = "EMAFixMatchStage2" /\ ~t2_args_ema) =>
        /\ t2_feature_ema = <<>> /\ t2_classifier_ema = <<>>
        /\ t2_pc # "AttributeError"
        /\ ema_accesses = 0
        /\ t2_checkpoint = <<>>
        /\ t2_pc = "done" => (Len(val_accs) = t2_num_epochs /\ t2_saved # <<>>)

(* -------------------- rescaling rejects, never relabels ----------------- *)
\* The first class of maximal raw logit of example i.
RawArgMax(i) ==
    Min({c \in Classes : \A k \in Classes : raw_logits[i][c] >= raw_logits[i][k]})

\* The examples whose nearest centroid is at a positive distance.
Calibrated(i) ==
    reachability_scale > 0 /\ DMin(feats[i], self_centroids)[1] > 0

====
